---- MODULE Spec2Model ----
(***************************************************************************)
(* The request dispatcher of audioserve (src/services/mod.rs): admission   *)
(* control on the worker pool's queue, the two static routes, the          *)
(* authentication gate, collection-prefix resolution, route                *)
(* classification, Range handling, the transcoding counter and the CORS    *)
(* post-processing.  Several connections are served concurrently; what     *)
(* they share is the pool and the transcoding counter.  The icon module    *)
(* (src/services/icon/mod.rs), the thumbnail scaler and its cache, is a    *)
(* component of its own with its own specification, IconSpec.              *)
(***************************************************************************)
EXTENDS Integers, Sequences, FiniteSets, TLC

(***************************************************************************)
(* Bounds of the model.                                                    *)
(***************************************************************************)
\* connections that can be in flight at the same time
NumConns == 2
\* get_config().base_dirs.len()
NumBaseDirs == 3
\* get_config().max_transcodings
MaxTranscodings == 1
\* get_config().pool_size.queue_size
QueueSizeLimit == 0
\* worker threads of the pool
PoolWorkers == 1
\* get_config().icons.size is one of 1..MaxIconSize
MaxIconSize == 3

Conns == 1..NumConns

None == "None"

(***************************************************************************)
(* Text.  A Rust String is modelled as the sequence of its code points, a  *)
(* byte string as the sequence of its bytes.  TLC cannot index a string,   *)
(* so Chars gives the characters of every string literal the model uses    *)
(* and Ord the code of each character.                                     *)
(***************************************************************************)
Ord ==
    "%" :> 37 @@ "&" :> 38 @@ "+" :> 43 @@ "." :> 46 @@ "/" :> 47 @@ "0" :> 48 @@
    "1" :> 49 @@ "2" :> 50 @@ "3" :> 51 @@ "4" :> 52 @@ "5" :> 53 @@ "6" :> 54 @@
    "7" :> 55 @@ "8" :> 56 @@ "9" :> 57 @@ "=" :> 61 @@ "A" :> 65 @@ "B" :> 66 @@
    "C" :> 67 @@ "D" :> 68 @@ "E" :> 69 @@ "F" :> 70 @@ "a" :> 97 @@ "b" :> 98 @@
    "c" :> 99 @@ "d" :> 100 @@ "e" :> 101 @@ "f" :> 102 @@ "g" :> 103 @@ "h" :> 104 @@
    "i" :> 105 @@ "j" :> 106 @@ "k" :> 107 @@ "l" :> 108 @@ "m" :> 109 @@ "n" :> 110 @@
    "o" :> 111 @@ "p" :> 112 @@ "q" :> 113 @@ "r" :> 114 @@ "s" :> 115 @@ "t" :> 116 @@
    "u" :> 117 @@ "v" :> 118 @@ "x" :> 120

Chars ==
    "/" :> <<"/">> @@
    "/bundle.js" :> <<"/", "b", "u", "n", "d", "l", "e", ".", "j", "s">> @@
    "/%62undle.js" :> <<"/", "%", "6", "2", "u", "n", "d", "l", "e", ".", "j", "s">> @@
    "/collections" :> <<"/", "c", "o", "l", "l", "e", "c", "t", "i", "o", "n", "s">> @@
    "/transcodings" :> <<"/", "t", "r", "a", "n", "s", "c", "o", "d", "i", "n", "g", "s">> @@
    "/audio/s.mp3" :> <<"/", "a", "u", "d", "i", "o", "/", "s", ".", "m", "p", "3">> @@
    "/audio/b.m4b" :> <<"/", "a", "u", "d", "i", "o", "/", "b", ".", "m", "4", "b">> @@
    "/2/audio/s.mp3" :> <<"/", "2", "/", "a", "u", "d", "i", "o", "/", "s", ".", "m", "p", "3">> @@
    "/5/audio/s.mp3" :> <<"/", "5", "/", "a", "u", "d", "i", "o", "/", "s", ".", "m", "p", "3">> @@
    "/%32/audio/s.mp3" :> <<"/", "%", "3", "2", "/", "a", "u", "d", "i", "o", "/", "s", ".", "m", "p", "3">> @@
    "/02/folder/f" :> <<"/", "0", "2", "/", "f", "o", "l", "d", "e", "r", "/", "f">> @@
    "/1/collections" :> <<"/", "1", "/", "c", "o", "l", "l", "e", "c", "t", "i", "o", "n", "s">> @@
    "/1/transcodings" :> <<"/", "1", "/", "t", "r", "a", "n", "s", "c", "o", "d", "i", "n", "g", "s">> @@
    "/folder/f" :> <<"/", "f", "o", "l", "d", "e", "r", "/", "f">> @@
    "/search" :> <<"/", "s", "e", "a", "r", "c", "h">> @@
    "/1/search" :> <<"/", "1", "/", "s", "e", "a", "r", "c", "h">> @@
    "/cover/c.jpg" :> <<"/", "c", "o", "v", "e", "r", "/", "c", ".", "j", "p", "g">> @@
    "/desc/d.txt" :> <<"/", "d", "e", "s", "c", "/", "d", ".", "t", "x", "t">> @@
    "/nope" :> <<"/", "n", "o", "p", "e">> @@
    "/2/" :> <<"/", "2", "/">> @@
    "/18446744073709551616/audio/s.mp3" :> <<"/", "1", "8", "4", "4", "6", "7", "4", "4", "0", "7", "3", "7", "0", "9", "5", "5", "1", "6", "1", "6", "/", "a", "u", "d", "i", "o", "/", "s", ".", "m", "p", "3">> @@
    "/%D9%A3/audio/s.mp3" :> <<"/", "%", "D", "9", "%", "A", "3", "/", "a", "u", "d", "i", "o", "/", "s", ".", "m", "p", "3">> @@
    "/audio/" :> <<"/", "a", "u", "d", "i", "o", "/">> @@
    "/folder/" :> <<"/", "f", "o", "l", "d", "e", "r", "/">> @@
    "/cover/" :> <<"/", "c", "o", "v", "e", "r", "/">> @@
    "/cover" :> <<"/", "c", "o", "v", "e", "r">> @@
    "/desc/" :> <<"/", "d", "e", "s", "c", "/">> @@
    "/desc" :> <<"/", "d", "e", "s", "c">> @@
    "seek" :> <<"s", "e", "e", "k">> @@
    "trans" :> <<"t", "r", "a", "n", "s">> @@
    "q" :> <<"q">> @@
    "l" :> <<"l">> @@
    "m" :> <<"m">> @@
    "h" :> <<"h">> @@
    "mp3" :> <<"m", "p", "3">> @@
    "m4b" :> <<"m", "4", "b">> @@
    "m4a" :> <<"m", "4", "a">> @@
    "aac" :> <<"a", "a", "c">> @@
    "mka" :> <<"m", "k", "a">> @@
    "jpg" :> <<"j", "p", "g">> @@
    "txt" :> <<"t", "x", "t">> @@
    "trans=l" :> <<"t", "r", "a", "n", "s", "=", "l">> @@
    "trans=x" :> <<"t", "r", "a", "n", "s", "=", "x">> @@
    "seek=30.5&trans=l" :> <<"s", "e", "e", "k", "=", "3", "0", ".", "5", "&", "t", "r", "a", "n", "s", "=", "l">> @@
    "q=a+b" :> <<"q", "=", "a", "+", "b">> @@
    "q=a&q=b%21" :> <<"q", "=", "a", "&", "q", "=", "b", "%", "2", "1">> @@
    "x=1" :> <<"x", "=", "1">> @@
    "index.html" :> <<"i", "n", "d", "e", "x", ".", "h", "t", "m", "l">> @@
    "bundle.js" :> <<"b", "u", "n", "d", "l", "e", ".", "j", "s">>

\* str::as_bytes for the (ASCII) literals of the model
as_bytes(s) == [i \in 1..Len(Chars[s]) |-> Ord[Chars[s][i]]]

\* value of an ASCII hex digit, -1 for any other byte
HexVal(b) ==
    IF b >= Ord["0"] /\ b <= Ord["9"] THEN b - Ord["0"]
    ELSE IF b >= Ord["A"] /\ b <= Ord["F"] THEN b - Ord["A"] + 10
    ELSE IF b >= Ord["a"] /\ b <= Ord["f"] THEN b - Ord["a"] + 10
    ELSE -1

\* percent_encoding::percent_decode: %XY with two hex digits is one byte,
\* anything else is copied
RECURSIVE percent_decode(_)
percent_decode(bs) ==
    IF bs = <<>> THEN <<>>
    ELSE IF /\ bs[1] = Ord["%"]
            /\ Len(bs) >= 3
            /\ HexVal(bs[2]) >= 0
            /\ HexVal(bs[3]) >= 0
         THEN <<16 * HexVal(bs[2]) + HexVal(bs[3])>>
                  \o percent_decode(SubSeq(bs, 4, Len(bs)))
         ELSE <<bs[1]>> \o percent_decode(Tail(bs))

\* U+FFFD, what a lossy decoding puts for an invalid byte
ReplacementChar == 65533

\* decode_utf8_lossy, for one- and two-byte sequences (the inputs of the
\* model hold no byte above 0xDF)
RECURSIVE decode_utf8_lossy(_)
decode_utf8_lossy(bs) ==
    IF bs = <<>> THEN <<>>
    ELSE IF bs[1] < 128 THEN <<bs[1]>> \o decode_utf8_lossy(Tail(bs))
    ELSE IF /\ bs[1] >= 194 /\ bs[1] <= 223
            /\ Len(bs) >= 2
            /\ bs[2] >= 128 /\ bs[2] <= 191
         THEN <<(bs[1] - 192) * 64 + (bs[2] - 128)>>
                  \o decode_utf8_lossy(SubSeq(bs, 3, Len(bs)))
         ELSE <<ReplacementChar>> \o decode_utf8_lossy(Tail(bs))

\* str::starts_with
starts_with(s, p) == Len(s) >= Len(p) /\ SubSeq(s, 1, Len(p)) = p

\* the regex class \d (Unicode Nd), for the code points below U+0800
is_digit(c) ==
    \/ c >= 48 /\ c <= 57
    \/ c >= 1632 /\ c <= 1641
    \/ c >= 1776 /\ c <= 1785
    \/ c >= 1984 /\ c <= 1993

is_ascii_digit(c) == c >= 48 /\ c <= 57

\* COLLECTION_NUMBER_RE = ^/(\d+)/.+ : the capture group 1 of a match, as
\* the positions [start, end] of the digits, or no match
COLLECTION_NUMBER_RE(s) ==
    IF Len(s) >= 2 /\ s[1] = Ord["/"] /\ is_digit(s[2])
    THEN LET k == CHOOSE j \in 2..Len(s) :
                     /\ \A i \in 2..j : is_digit(s[i])
                     /\ (j = Len(s) \/ ~is_digit(s[j + 1]))
         IN IF Len(s) >= k + 2 /\ s[k + 1] = Ord["/"] /\ s[k + 2] # 10
            THEN [matched |-> TRUE, start |-> 2, end |-> k]
            ELSE [matched |-> FALSE, start |-> 0, end |-> 0]
    ELSE [matched |-> FALSE, start |-> 0, end |-> 0]

\* the decimal digits of usize::MAX on a 64-bit target
UsizeMaxDigits == <<1, 8, 4, 4, 6, 7, 4, 4, 0, 7, 3, 7, 0, 9, 5, 5, 1, 6, 1, 5>>

RECURSIVE StripZeros(_)
StripZeros(d) ==
    IF Len(d) > 1 /\ d[1] = 0 THEN StripZeros(Tail(d)) ELSE d

\* a > b for digit strings of the same length
DigitsGt(a, b) ==
    \E i \in 1..Len(a) : a[i] > b[i] /\ \A j \in 1..(i - 1) : a[j] = b[j]

RECURSIVE DigitsValue(_)
DigitsValue(d) ==
    IF d = <<>> THEN 0 ELSE 10 * DigitsValue(SubSeq(d, 1, Len(d) - 1)) + d[Len(d)]

\* str::parse::<usize>: Err on a character that is no ASCII digit and on a
\* value above usize::MAX, else Ok with the value, kept as its digits without
\* leading zeros
parse_usize(s) ==
    IF \E i \in 1..Len(s) : ~is_ascii_digit(s[i])
    THEN [ok |-> FALSE, digits |-> <<>>]
    ELSE LET d == StripZeros([i \in 1..Len(s) |-> s[i] - 48])
         IN IF \/ Len(d) > Len(UsizeMaxDigits)
               \/ Len(d) = Len(UsizeMaxDigits) /\ DigitsGt(d, UsizeMaxDigits)
            THEN [ok |-> FALSE, digits |-> <<>>]
            ELSE [ok |-> TRUE, digits |-> d]

\* cnum >= n for a parsed usize and a small n
usize_ge(d, n) == IF Len(d) > 9 THEN TRUE ELSE DigitsValue(d) >= n

Lit(s) == as_bytes(s)

\* the pieces of bs between the bytes sep
RECURSIVE Split(_, _)
Split(bs, sep) ==
    IF \E i \in 1..Len(bs) : bs[i] = sep
    THEN LET i == CHOOSE i \in 1..Len(bs) :
                     bs[i] = sep /\ \A j \in 1..(i - 1) : bs[j] # sep
         IN <<SubSeq(bs, 1, i - 1)>> \o Split(SubSeq(bs, i + 1, Len(bs)), sep)
    ELSE <<bs>>

RECURSIVE Join(_)
Join(comps) ==
    IF comps = <<>> THEN <<>>
    ELSE IF Len(comps) = 1 THEN comps[1]
    ELSE comps[1] \o <<Ord["/"]>> \o Join(Tail(comps))

\* Path::components of an absolute path: the names between separators,
\* empty names and "." dropped
Components(s) ==
    SelectSeq(Split(s, Ord["/"]), LAMBDA c : c # <<>> /\ c # <<Ord["."]>>)

PathPanic == <<-1>>

\* get_subpath: Path::strip_prefix(prefix).unwrap(); the unwrap panics when
\* prefix is no prefix of the path's components
get_subpath(path, prefix) ==
    LET pc == Components(path)
        xc == Components(prefix)
    IN IF Len(pc) >= Len(xc) /\ SubSeq(pc, 1, Len(xc)) = xc
       THEN Join(SubSeq(pc, Len(xc) + 1, Len(pc)))
       ELSE PathPanic

\* leaves a name or a value as it is in the query
form_decode_raw(bs) == decode_utf8_lossy(bs)

\* form_urlencoded's decoding of a name or a value: + is a space, then
\* percent-decoding, then lossy UTF-8
form_decode(bs) ==
    decode_utf8_lossy(
        percent_decode([i \in 1..Len(bs) |-> IF bs[i] = Ord["+"] THEN 32 ELSE bs[i]]))

\* form_urlencoded::parse: the name=value pairs between the & of a query,
\* empty pieces skipped, a piece without = has an empty value
form_urlencoded_parse(bs) ==
    LET pieces == SelectSeq(Split(bs, Ord["&"]), LAMBDA c : c # <<>>)
        pair(c) ==
            IF \E i \in 1..Len(c) : c[i] = Ord["="]
            THEN LET i == CHOOSE i \in 1..Len(c) :
                             c[i] = Ord["="] /\ \A j \in 1..(i - 1) : c[j] # Ord["="]
                 IN <<form_decode(SubSeq(c, 1, i - 1)),
                      form_decode(SubSeq(c, i + 1, Len(c)))>>
            ELSE <<form_decode(c), <<>>>>
    IN [i \in 1..Len(pieces) |-> pair(pieces[i])]

NoValue == <<-1>>

\* collect::<HashMap<_, _>>() followed by remove(key): a later pair of the
\* same name replaces an earlier one
params_remove(pairs, key) ==
    IF \E i \in 1..Len(pairs) : pairs[i][1] = key
    THEN LET i == CHOOSE i \in 1..Len(pairs) :
                     pairs[i][1] = key /\ \A j \in (i + 1)..Len(pairs) : pairs[j][1] # key
         IN pairs[i][2]
    ELSE NoValue

\* s.parse::<f32>().ok() for the decimal notation digits[.digits]
parse_f32(s) ==
    IF /\ s # <<>>
       /\ \A i \in 1..Len(s) : is_ascii_digit(s[i]) \/ s[i] = Ord["."]
       /\ \E i \in 1..Len(s) : is_ascii_digit(s[i])
       /\ Cardinality({i \in 1..Len(s) : s[i] = Ord["."]}) <= 1
    THEN s
    ELSE NoValue

\* QualityLevel::from_letter
from_letter(t) ==
    IF t = Lit("l") THEN "Low"
    ELSE IF t = Lit("m") THEN "Medium"
    ELSE IF t = Lit("h") THEN "High"
    ELSE None

\* the extension of a path: what follows the last dot of its last component
Extension(s) ==
    LET comps == Components(s)
        last == IF comps = <<>> THEN <<>> ELSE comps[Len(comps)]
        parts == Split(last, Ord["."])
    IN IF Len(parts) >= 2 THEN parts[Len(parts)] ELSE <<>>

\* mime_guess::guess_mime_type, for the extensions of the model
guess_mime_type(s) ==
    LET e == Extension(s)
    IN IF e = Lit("mp3") THEN [type |-> "audio", subtype |-> "mpeg"]
       ELSE IF e = Lit("m4b") THEN [type |-> "audio", subtype |-> "m4b"]
       ELSE IF e = Lit("m4a") THEN [type |-> "audio", subtype |-> "m4a"]
       ELSE IF e = Lit("aac") THEN [type |-> "audio", subtype |-> "aac"]
       ELSE IF e = Lit("mka") THEN [type |-> "audio", subtype |-> "x-matroska"]
       ELSE IF e = Lit("jpg") THEN [type |-> "image", subtype |-> "jpeg"]
       ELSE IF e = Lit("txt") THEN [type |-> "text", subtype |-> "plain"]
       ELSE [type |-> "application", subtype |-> "octet-stream"]

has_subtype(mime, subtypes) == mime.subtype \in subtypes

AUDIO_T == {"aac", "m4a", "m4b", "x-matroska"}

must_transcode(mime) == has_subtype(mime, AUDIO_T)

(***************************************************************************)
(* Requests and responses.                                                 *)
(***************************************************************************)
\* hyper's typed Range header: Range::Bytes(ranges), Range::Unregistered
\* (another unit), or no header
NoRange == [unit |-> "none", ranges |-> <<>>]
FromTo(a, b) == [kind |-> "FromTo", a |-> a, b |-> b]
AllFrom(a) == [kind |-> "AllFrom", a |-> a, b |-> 0]
NoByteRange == [kind |-> "None", a |-> 0, b |-> 0]
Bytes(ranges) == [unit |-> "bytes", ranges |-> ranges]
OtherUnit == [unit |-> "items", ranges |-> <<>>]

Origins == {None, "http://x"}

AllPaths ==
    {"/", "/bundle.js", "/%62undle.js", "/collections", "/transcodings",
     "/audio/s.mp3", "/audio/b.m4b", "/2/audio/s.mp3", "/5/audio/s.mp3",
     "/%32/audio/s.mp3", "/02/folder/f", "/1/collections", "/1/transcodings",
     "/folder/f", "/search", "/1/search", "/cover/c.jpg", "/desc/d.txt", "/nope",
     "/2/", "/18446744073709551616/audio/s.mp3", "/%D9%A3/audio/s.mp3"}

Req(m, p, q, o, rg) ==
    [method |-> m, path |-> p, query |-> q, origin |-> o, range |-> rg]

\* the requests a client sends
Requests ==
    {Req("GET", p, None, None, NoRange) : p \in AllPaths}
    \cup {Req("GET", p, None, "http://x", NoRange) :
            p \in {"/", "/collections", "/audio/s.mp3", "/5/audio/s.mp3", "/nope",
                   "/1/collections", "/folder/f"}}
    \cup {Req("POST", p, None, None, NoRange) :
            p \in {"/", "/bundle.js", "/collections", "/audio/s.mp3",
                   "/5/audio/s.mp3", "/nope"}}
    \cup {Req("POST", "/nope", None, "http://x", NoRange)}
    \cup {Req("GET", "/audio/s.mp3", None, None, rg) :
            rg \in {Bytes(<<>>), Bytes(<<FromTo(0, 99)>>), Bytes(<<AllFrom(60)>>),
                    Bytes(<<FromTo(0, 50), FromTo(60, 100)>>), OtherUnit}}
    \cup {Req("GET", "/audio/s.mp3", None, "http://x", rg) :
            rg \in {Bytes(<<>>), OtherUnit}}
    \cup {Req("GET", "/2/audio/s.mp3", q, None, Bytes(<<FromTo(0, 99)>>)) :
            q \in {None, "trans=l"}}
    \cup {Req("GET", "/audio/s.mp3", q, None, NoRange) :
            q \in {"trans=l", "trans=x", "seek=30.5&trans=l", "x=1"}}
    \cup {Req("GET", "/search", q, None, NoRange) : q \in {"q=a+b", "q=a&q=b%21", "x=1"}}
    \cup {Req("GET", "/1/search", "q=a+b", None, NoRange),
          Req("GET", "/folder/f", None, None, Bytes(<<FromTo(0, 50), FromTo(60, 100)>>))}

\* the requests of the other connections, the load: they queue jobs in the
\* pool and take transcoding slots
LoadRequests ==
    {Req("GET", p, None, None, NoRange) : p \in {"/", "/audio/b.m4b"}}

\* connection 1 sends any request, the others the load
RequestsOf(r) == IF r = 1 THEN Requests ELSE LoadRequests

NoReq == Req("", "", None, None, NoRange)

NoResp == [status |-> 0, body |-> "", headers |-> {}]

Response(status, body) == [status |-> status, body |-> body, headers |-> {}]

\* Response::with_header: a header of the same name is replaced
with_header(resp, name, value) ==
    [resp EXCEPT !.headers = {h \in @ : h[1] # name} \cup {<<name, value>>}]

OVERLOADED_MESSAGE == "Overloaded, try later"
NOT_FOUND_MESSAGE == "Not Found"
APP_STATIC_FILES_CACHE_AGE == 30 * 24 * 3600
FOLDER_INFO_FILES_CACHE_AGE == 24 * 3600

\* what process_checked does with a request: answer at once
\* (short_response_boxed), call a handler, or panic in an unwrap
short_response_boxed(status, msg) ==
    [kind |-> "short", status |-> status, body |-> msg]

Panicked == [kind |-> "panic"]

NoCall == [kind |-> "none"]

add_cors_headers_always(resp, origin, enabled) ==
    IF origin # None
    THEN with_header(with_header(resp, "Access-Control-Allow-Origin", origin),
                     "Access-Control-Allow-Credentials", "true")
    ELSE resp

\* add_cors_headers
add_cors_headers(resp, origin, enabled) ==
    IF ~enabled THEN resp
    ELSE IF origin # None
         THEN with_header(with_header(resp, "Access-Control-Allow-Origin", origin),
                          "Access-Control-Allow-Credentials", "true")
         ELSE resp

(***************************************************************************)
(* FileSendService::process_checked, as far as it is a function of the     *)
(* request: the response it builds itself, or the handler it calls and     *)
(* the arguments it passes (the pool, the searcher and the transcoding     *)
(* details are passed along unchanged).                                    *)
(***************************************************************************)
\* takes the first of several ranges
bytes_range_first(range) ==
    IF range.unit = "bytes" /\ range.ranges # <<>>
    THEN [ok |-> TRUE, range |-> range.ranges[1], status |-> 0, msg |-> ""]
    ELSE IF range.unit = "none"
         THEN [ok |-> TRUE, range |-> NoByteRange, status |-> 0, msg |-> ""]
         ELSE [ok |-> FALSE, range |-> NoByteRange, status |-> 501, msg |-> ""]

\* the Range header of an audio request
bytes_range_of(range) ==
    IF range.unit = "none" THEN [ok |-> TRUE, range |-> NoByteRange, status |-> 0, msg |-> ""]
    ELSE IF range.unit = "bytes"
         THEN IF range.ranges = <<>>
              THEN [ok |-> FALSE, range |-> NoByteRange, status |-> 400,
                    msg |-> "One range is required"]
              ELSE IF Len(range.ranges) > 1
                   THEN [ok |-> FALSE, range |-> NoByteRange, status |-> 501,
                         msg |-> "Do not support muptiple ranges"]
                   ELSE [ok |-> TRUE, range |-> range.ranges[1], status |-> 0, msg |-> ""]
         ELSE [ok |-> FALSE, range |-> NoByteRange, status |-> 501,
               msg |-> "Other then bytes ranges are not supported"]

\* the routes below the collection prefix
route(req, params, path, colllection_index) ==
    IF starts_with(path, Lit("/audio/"))
    THEN LET br == bytes_range_of(req.range)
             seek == LET v == params_remove(params, Lit("seek"))
                     IN IF v = NoValue THEN NoValue ELSE parse_f32(v)
             trans == params_remove(params, Lit("trans"))
             transcoding_quality == IF trans = NoValue THEN None ELSE from_letter(trans)
         IN IF ~br.ok THEN short_response_boxed(br.status, br.msg)
            ELSE [kind |-> "call", fn |-> "send_file", dir |-> "base_dirs",
                  base |-> colllection_index,
                  subpath |-> get_subpath(path, Lit("/audio/")),
                  range |-> br.range, seek |-> seek, quality |-> transcoding_quality,
                  cache_age |-> 0, search_string |-> NoValue]
    ELSE IF starts_with(path, Lit("/folder/"))
    THEN [kind |-> "call", fn |-> "get_folder", dir |-> "base_dirs",
          base |-> colllection_index, subpath |-> get_subpath(path, Lit("/folder/")),
          range |-> NoByteRange, seek |-> NoValue, quality |-> None,
          cache_age |-> 0, search_string |-> NoValue]
    ELSE IF path = Lit("/search")
    THEN LET q == params_remove(params, Lit("q"))
         IN IF q # NoValue
            THEN [kind |-> "call", fn |-> "search", dir |-> "base_dirs",
                  base |-> colllection_index, subpath |-> <<>>,
                  range |-> NoByteRange, seek |-> NoValue, quality |-> None,
                  cache_age |-> 0, search_string |-> q]
            ELSE short_response_boxed(404, NOT_FOUND_MESSAGE)
    ELSE IF starts_with(path, Lit("/cover/"))
    THEN [kind |-> "call", fn |-> "send_file_simple", dir |-> "base_dirs",
          base |-> colllection_index, subpath |-> get_subpath(path, Lit("/cover")),
          range |-> NoByteRange, seek |-> NoValue, quality |-> None,
          cache_age |-> FOLDER_INFO_FILES_CACHE_AGE, search_string |-> NoValue]
    ELSE IF starts_with(path, Lit("/desc/"))
    THEN [kind |-> "call", fn |-> "send_file_simple", dir |-> "base_dirs",
          base |-> colllection_index, subpath |-> get_subpath(path, Lit("/desc")),
          range |-> NoByteRange, seek |-> NoValue, quality |-> None,
          cache_age |-> FOLDER_INFO_FILES_CACHE_AGE, search_string |-> NoValue]
    ELSE short_response_boxed(404, NOT_FOUND_MESSAGE)

\* a handler that takes no argument
call0(fn) ==
    [kind |-> "call", fn |-> fn, dir |-> "none", base |-> 0, subpath |-> <<>>,
     range |-> NoByteRange, seek |-> NoValue, quality |-> None, cache_age |-> 0,
     search_string |-> NoValue]

\* params is the map of the query's pairs; no query (None) and a query
\* without the name looked up both make remove(name) yield None
process_checked(req) ==
    LET params == IF req.query = None THEN <<>>
                  ELSE form_urlencoded_parse(as_bytes(req.query))
    IN IF req.method = "GET"
       THEN LET path == decode_utf8_lossy(percent_decode(as_bytes(req.path)))
            IN IF starts_with(path, Lit("/collections")) THEN call0("collections_list")
               ELSE IF starts_with(path, Lit("/transcodings"))
                    THEN call0("transcodings_list")
               ELSE LET matches == COLLECTION_NUMBER_RE(path)
                    IN IF matches.matched
                       THEN LET new_path == SubSeq(path, matches.end + 1, Len(path))
                                cnum == parse_usize(
                                            SubSeq(path, matches.start, matches.end))
                            IN IF ~cnum.ok THEN Panicked
                               ELSE IF usize_ge(cnum.digits, NumBaseDirs)
                                    THEN short_response_boxed(404, NOT_FOUND_MESSAGE)
                                    ELSE route(req, params, new_path,
                                               DigitsValue(cnum.digits))
                       ELSE route(req, params, path, 0)
       ELSE short_response_boxed(405, "Method not supported")

\* process_checked of every request of the model
Routed == [q \in Requests |-> process_checked(q)]

(***************************************************************************)
(* The icon module, its pure part.  An image is its width, its height and  *)
(* what it shows; a PNG file is a byte string: the four bytes of the       *)
(* signature the model keeps, the width, the height and the picture.       *)
(***************************************************************************)
\* the files icons are asked for: what ImageReader::open finds at the path
Files ==
    "cover.jpg" :> [exists |-> TRUE, decodable |-> TRUE, w |-> 4, h |-> 4, id |-> 1,
                    encodable |-> TRUE]
    @@ "small.png" :> [exists |-> TRUE, decodable |-> TRUE, w |-> 2, h |-> 2, id |-> 2,
                       encodable |-> TRUE]
    @@ "wide.jpg" :> [exists |-> TRUE, decodable |-> TRUE, w |-> 4, h |-> 2, id |-> 3,
                      encodable |-> TRUE]
    @@ "float.exr" :> [exists |-> TRUE, decodable |-> TRUE, w |-> 4, h |-> 4, id |-> 4,
                       encodable |-> FALSE]
    @@ "notes.txt" :> [exists |-> TRUE, decodable |-> FALSE, w |-> 0, h |-> 0, id |-> 5,
                       encodable |-> FALSE]
    @@ "gone.jpg" :> [exists |-> FALSE, decodable |-> FALSE, w |-> 0, h |-> 0, id |-> 6,
                      encodable |-> FALSE]

IconPaths == DOMAIN Files

\* get_config().icons
IconConfigs ==
    [cache_disabled : BOOLEAN, size : 1..MaxIconSize, fast_scaling : BOOLEAN]

\* a / b rounded to the nearest integer, f64::round for positive values
Round(a, b) == (2 * a + b) \div (2 * b)

Max(a, b) == IF a >= b THEN a ELSE b

\* image::math::utils::resize_dimensions with fill = false: the largest
\* size of the same aspect ratio that fits nwidth x nheight, no side
\* below 1
resize_dimensions(width, height, nwidth, nheight) ==
    IF nwidth * height <= nheight * width
    THEN [w |-> Max(Round(width * nwidth, width), 1),
          h |-> Max(Round(height * nwidth, width), 1)]
    ELSE [w |-> Max(Round(width * nheight, height), 1),
          h |-> Max(Round(height * nheight, height), 1)]

\* FilterType, by the support of the kernel
Lanczos3 == "Lanczos3"
Triangle == "Triangle"
FilterCode == "Lanczos3" :> 3 @@ "Triangle" :> 1

\* DynamicImage::resize
resize(img, nwidth, nheight, filter) ==
    [w |-> resize_dimensions(img.w, img.h, nwidth, nheight).w,
     h |-> resize_dimensions(img.w, img.h, nwidth, nheight).h,
     id |-> img.id, filter |-> filter, encodable |-> img.encodable]

PngSignature == <<137, 80, 78, 71>>

\* DynamicImage::write_to(buf, ImageOutputFormat::Png)
write_to_png(img) ==
    IF img.encodable
    THEN [ok |-> TRUE,
          data |-> PngSignature \o <<img.w, img.h, img.id, FilterCode[img.filter]>>]
    ELSE [ok |-> FALSE, data |-> <<>>]

\* ImageReader::with_format(buf, ImageFormat::Png).decode()
decode_png(data) ==
    IF Len(data) = 8 /\ SubSeq(data, 1, 4) = PngSignature
    THEN [ok |-> TRUE, w |-> data[5], h |-> data[6], id |-> data[7]]
    ELSE [ok |-> FALSE, w |-> 0, h |-> 0, id |-> 0]

\* encodes the image as it was decoded
scale_cover_unscaled(path, cfg) ==
    IF ~Files[path].exists \/ ~Files[path].decodable
    THEN [ok |-> FALSE, data |-> <<>>]
    ELSE write_to_png([w |-> Files[path].w, h |-> Files[path].h, id |-> Files[path].id,
                       filter |-> Lanczos3, encodable |-> Files[path].encodable])

\* scale_cover: Err when the file cannot be opened, decoded or encoded
scale_cover(path, cfg) ==
    IF ~Files[path].exists \/ ~Files[path].decodable
    THEN [ok |-> FALSE, data |-> <<>>]
    ELSE write_to_png(resize(Files[path], cfg.size, cfg.size,
                             IF ~cfg.fast_scaling THEN Lanczos3 ELSE Triangle))

\* no thumbnail cached for a path
NoEntry == <<>>

\* cache::cached_icon: the cached file of the path, if there is one
cached_icon(cache, path) == cache[path]

lookup_never(cache_enabled, cache, path) == NoEntry

\* the cache is asked only when it is enabled
lookup(cache_enabled, cache, path) ==
    IF cache_enabled THEN cached_icon(cache, path) ELSE NoEntry

miss_ok_strict(sc, cache_enabled, write_ok) == sc.ok /\ (cache_enabled => write_ok)

\* whether icon_response goes on after a cache miss: scale_cover(&path)?
\* returns its error, the result of cache_icon is only logged
miss_ok(sc, cache_enabled, write_ok) == sc.ok

cache_after_miss_eager(cache, path, sc, cache_enabled, write_ok) ==
    IF cache_enabled /\ write_ok
    THEN [cache EXCEPT ![path] = IF sc.ok THEN sc.data ELSE <<0>>]
    ELSE cache

\* the cache after a miss: cache_icon(path, &data) is reached when
\* scale_cover returned Ok and the cache is enabled, and can fail
cache_after_miss(cache, path, sc, cache_enabled, write_ok) ==
    IF sc.ok /\ cache_enabled /\ write_ok
    THEN [cache EXCEPT ![path] = sc.data]
    ELSE cache

\* what a call of the icon module came to
NoIconCall ==
    [op |-> "none", path |-> "", ok |-> FALSE, status |-> 0, headers |-> {},
     body |-> <<>>, hit |-> FALSE, scaled |-> FALSE, cache_write |-> "none"]

\* Response::builder().status(200).typed_header(ContentLength(data.len()))
\* .typed_header(ContentType::png()).body(data)
icon_body_response(call, data) ==
    [call EXCEPT !.ok = TRUE, !.status = 200, !.body = data,
                 !.headers = {<<"Content-Length", Len(data)>>,
                              <<"Content-Type", "image/png">>}]

\* the icon module with nothing cached and no call made
IconsNew(cfg) ==
    [cfg |-> cfg, cache |-> [p \in IconPaths |-> NoEntry],
     last |-> NoIconCall, prev |-> NoIconCall]

\* the icon configuration of the service: the defaults, the cache enabled
DefaultIcons ==
    IconsNew([cache_disabled |-> FALSE, size |-> MaxIconSize, fast_scaling |-> FALSE])

(***************************************************************************)
(* The service.                                                            *)
(***************************************************************************)
VARIABLES
    config,        \* get_config(): cors, and whether an authenticator is set
    conn,          \* per connection: the request in flight and where it stands
    pool,          \* the worker pool: queued jobs, jobs a worker runs
    transcodings,  \* TranscodingDetails.transcodings, the shared counter
    icons          \* the icon module: its configuration, its cache, its calls

vars == <<config, conn, pool, transcodings, icons>>

IdleConn ==
    [pc |-> "idle", req |-> NoReq, queue_over |-> FALSE, auth_calls |-> 0,
     auth_result |-> "none", cors_stage |-> FALSE, origin |-> None, call |-> NoCall, jobs |-> 0,
     holds |-> FALSE, acquired |-> 0, released |-> 0,
     handler_resp |-> NoResp, resp |-> NoResp]

Init ==
    /\ config \in [cors : BOOLEAN, authenticator : BOOLEAN]
    /\ conn = [r \in Conns |-> IdleConn]
    /\ pool = [queue |-> <<>>, running |-> {}]
    /\ transcodings = 0
    /\ icons = DefaultIcons

\* Pool::queue_size
queue_size == Len(pool.queue)

overloaded_late(qs, limit) == qs > limit + 1

\* the admission test of call
overloaded(qs, limit) == qs > limit

\* the paths call serves before authentication
is_static(path) == path = "/" \/ path = "/bundle.js"

\* the response of the future call returns: responses of the authenticated
\* part go through add_cors_headers, the others are returned as they are
Respond(c, r0) ==
    [c EXCEPT !.pc = "done",
              !.handler_resp = r0,
              !.resp = IF c.cors_stage
                       THEN add_cors_headers(r0, c.origin, config.cors)
                       ELSE r0]

\* a handler hands a job to the pool and the response waits for it
Submit(r, c) ==
    /\ conn' = [conn EXCEPT ![r] = [c EXCEPT !.pc = "job", !.jobs = @ + 1]]
    /\ pool' = [pool EXCEPT !.queue = Append(@, r)]

collections_list == Response(200, "collections")

\* cfg.transcoding.get(level): the preset configured for a quality level
transcoding_get(level) == <<"preset", level>>

\* reports the slots that are free at the moment
Transcodings_live ==
    [max_transcodings |-> MaxTranscodings - transcodings,
     low |-> transcoding_get("Low"),
     medium |-> transcoding_get("Medium"),
     high |-> transcoding_get("High")]

\* Transcodings::new
Transcodings_new ==
    [max_transcodings |-> MaxTranscodings,
     low |-> transcoding_get("Low"),
     medium |-> transcoding_get("Medium"),
     high |-> transcoding_get("High")]

\* transcodings_list: Transcodings::new() serialised into the body
transcodings_list == Response(200, ToString(Transcodings_new))

\* whether send_file transcodes the file
transcodes(call) ==
    call.quality # None \/ must_transcode(guess_mime_type(call.subpath))

slot_free_off_by_one(n, max) == n <= max

\* the check of the counter against max_transcodings
slot_free(n, max) == n < max

\* send_file: a transcode takes a slot of the counter, in one step with the
\* check, or is refused
send_file(r, c) ==
    IF transcodes(c.call)
    THEN IF slot_free(transcodings, MaxTranscodings)
         THEN /\ transcodings' = transcodings + 1
              /\ Submit(r, [c EXCEPT !.holds = TRUE, !.acquired = @ + 1])
         ELSE /\ conn' = [conn EXCEPT ![r] =
                             Respond(c, Response(503, "Max transcodings reached"))]
              /\ UNCHANGED <<pool, transcodings>>
    ELSE /\ Submit(r, c)
         /\ UNCHANGED transcodings

\* takes a transcoding slot before the request is looked at
ProcessChecked_counts(r, c) ==
    \E out \in {Routed[c.req]} :
        IF out.kind = "panic"
        THEN /\ conn' = [conn EXCEPT ![r] = [c EXCEPT !.pc = "panicked"]]
             /\ UNCHANGED <<pool, transcodings>>
        ELSE IF out.kind = "short"
        THEN /\ conn' = [conn EXCEPT ![r] = Respond(c, Response(out.status, out.body))]
             /\ transcodings' = IF transcodings < MaxTranscodings
                                THEN transcodings + 1 ELSE transcodings
             /\ UNCHANGED pool
        ELSE IF out.fn = "collections_list"
        THEN /\ conn' = [conn EXCEPT ![r] =
                            Respond([c EXCEPT !.call = out], collections_list)]
             /\ UNCHANGED <<pool, transcodings>>
        ELSE IF out.fn = "transcodings_list"
        THEN /\ conn' = [conn EXCEPT ![r] =
                            Respond([c EXCEPT !.call = out], transcodings_list)]
             /\ UNCHANGED <<pool, transcodings>>
        ELSE IF out.fn = "send_file" THEN send_file(r, [c EXCEPT !.call = out])
        ELSE /\ Submit(r, [c EXCEPT !.call = out])
             /\ UNCHANGED transcodings

\* process_checked with its effects
ProcessChecked(r, c) ==
    \E out \in {Routed[c.req]} :
        IF out.kind = "panic"
        THEN /\ conn' = [conn EXCEPT ![r] = [c EXCEPT !.pc = "panicked"]]
             /\ UNCHANGED <<pool, transcodings>>
        ELSE IF out.kind = "short"
        THEN /\ conn' = [conn EXCEPT ![r] = Respond(c, Response(out.status, out.body))]
             /\ UNCHANGED <<pool, transcodings>>
        ELSE IF out.fn = "collections_list"
        THEN /\ conn' = [conn EXCEPT ![r] =
                            Respond([c EXCEPT !.call = out], collections_list)]
             /\ UNCHANGED <<pool, transcodings>>
        ELSE IF out.fn = "transcodings_list"
        THEN /\ conn' = [conn EXCEPT ![r] =
                            Respond([c EXCEPT !.call = out], transcodings_list)]
             /\ UNCHANGED <<pool, transcodings>>
        ELSE IF out.fn = "send_file" THEN send_file(r, [c EXCEPT !.call = out])
        ELSE /\ Submit(r, [c EXCEPT !.call = out])
             /\ UNCHANGED transcodings

\* send_file_simple(&get_config().client_dir, name, Some(age), pool)
static_call(name) ==
    [kind |-> "call", fn |-> "send_file_simple", dir |-> "client_dir", base |-> 0,
     subpath |-> Lit(name), range |-> NoByteRange, seek |-> NoValue,
     quality |-> None, cache_age |-> APP_STATIC_FILES_CACHE_AGE,
     search_string |-> NoValue]

\* FileSendService::call, up to the point where the authenticator is asked
Call(r, q) ==
    /\ conn[r].pc = "idle"
    /\ LET c == [IdleConn EXCEPT !.req = q,
                                !.queue_over = queue_size > QueueSizeLimit]
       IN IF overloaded(queue_size, QueueSizeLimit)
          THEN /\ conn' = [conn EXCEPT ![r] =
                              Respond(c, Response(503, OVERLOADED_MESSAGE))]
               /\ UNCHANGED <<pool, transcodings>>
          ELSE IF q.path = "/"
          THEN /\ Submit(r, [c EXCEPT !.call = static_call("index.html")])
               /\ UNCHANGED transcodings
          ELSE IF q.path = "/bundle.js"
          THEN /\ Submit(r, [c EXCEPT !.call = static_call("bundle.js")])
               /\ UNCHANGED transcodings
          ELSE LET c1 == [c EXCEPT !.cors_stage = TRUE, !.origin = q.origin]
               IN IF config.authenticator
                  THEN /\ conn' = [conn EXCEPT ![r] =
                                      [c1 EXCEPT !.pc = "auth", !.auth_calls = @ + 1]]
                       /\ UNCHANGED <<pool, transcodings>>
                  ELSE ProcessChecked(r, c1)
    /\ UNCHANGED <<config, icons>>

\* the responses an authenticator refuses a request with
AuthResponses ==
    {Response(401, "Unauthorized"),
     with_header(Response(403, "Forbidden"), "Access-Control-Allow-Origin", "*")}

\* authenticate resolved to Ok((req, creds))
AuthContinue(r) ==
    /\ conn[r].pc = "auth"
    /\ ProcessChecked(r, [conn[r] EXCEPT !.auth_result = "continue"])
    /\ UNCHANGED <<config, icons>>

\* dispatches although the authenticator refused
AuthTerminal_dispatches(r, resp) ==
    /\ conn[r].pc = "auth"
    /\ ProcessChecked(r, [conn[r] EXCEPT !.auth_result = "terminal"])
    /\ UNCHANGED <<config, icons>>

\* answers a refused request with a response of the dispatcher
AuthTerminal_reinterprets(r, resp) ==
    /\ conn[r].pc = "auth"
    /\ conn' = [conn EXCEPT ![r] = Respond([@ EXCEPT !.auth_result = "terminal"],
                                           Response(404, NOT_FOUND_MESSAGE))]
    /\ UNCHANGED <<config, pool, transcodings, icons>>

\* authenticate resolved to Err(resp)
AuthTerminal(r, resp) ==
    /\ conn[r].pc = "auth"
    /\ conn' = [conn EXCEPT ![r] = Respond([@ EXCEPT !.auth_result = "terminal"], resp)]
    /\ UNCHANGED <<config, pool, transcodings, icons>>

\* a free worker takes the oldest queued job
PoolStart ==
    /\ pool.queue # <<>>
    /\ Cardinality(pool.running) < PoolWorkers
    /\ pool' = [queue |-> Tail(pool.queue),
                running |-> pool.running \cup {Head(pool.queue)}]
    /\ UNCHANGED <<config, conn, transcodings, icons>>

\* what the handler answers once its job has run
job_response(call, ok) ==
    IF ~ok THEN Response(404, NOT_FOUND_MESSAGE)
    ELSE IF call.range.kind # "None" THEN Response(206, "content")
    ELSE IF call.cache_age > 0
         THEN with_header(Response(200, "content"), "Cache-Control", "public")
         ELSE Response(200, "content")

slots_released_twice(c) == IF c.holds THEN 2 ELSE 0

\* the slots a request gives back when its transcode ends
slots_released(c) == IF c.holds THEN 1 ELSE 0

Release(c) ==
    [c EXCEPT !.holds = FALSE, !.released = @ + slots_released(c)]

\* the job of connection r ends, well or not
JobDone(r, ok) ==
    /\ r \in pool.running
    /\ pool' = [pool EXCEPT !.running = @ \ {r}]
    /\ transcodings' = transcodings - slots_released(conn[r])
    /\ conn' = [conn EXCEPT ![r] =
                   Respond(Release(@), job_response(conn[r].call, ok))]
    /\ UNCHANGED <<config, icons>>

\* the client disconnects: the response future is dropped, its job with it
Cancel(r) ==
    /\ conn[r].pc \in {"auth", "job"}
    /\ pool' = [queue |-> SelectSeq(pool.queue, LAMBDA x : x # r),
                running |-> pool.running \ {r}]
    /\ transcodings' = transcodings - slots_released(conn[r])
    /\ conn' = [conn EXCEPT ![r] =
                   [IdleConn EXCEPT !.pc = "cancelled",
                                    !.acquired = conn[r].acquired,
                                    !.released = Release(conn[r]).released]]
    /\ UNCHANGED <<config, icons>>

\* the connection is over and can carry the next request
Reset(r) ==
    /\ conn[r].pc \in {"done", "panicked", "cancelled"}
    /\ conn' = [conn EXCEPT ![r] = IdleConn]
    /\ UNCHANGED <<config, pool, transcodings, icons>>

Next ==
    \/ \E r \in Conns : \E q \in RequestsOf(r) : Call(r, q)
    \/ \E r \in Conns : AuthContinue(r)
    \/ \E r \in Conns, resp \in AuthResponses : AuthTerminal(r, resp)
    \/ PoolStart
    \/ \E r \in Conns, ok \in BOOLEAN : JobDone(r, ok)
    \/ \E r \in Conns : Cancel(r)
    \/ \E r \in Conns : Reset(r)

Spec == Init /\ [][Next]_vars

\* the pool runs the jobs it holds and a job ends: a file is sent or a
\* transcode finishes, or fails
FairSpec ==
    /\ Spec
    /\ WF_vars(PoolStart)
    /\ \A r \in Conns : WF_vars(\E ok \in BOOLEAN : JobDone(r, ok))

(***************************************************************************)
(* The icon module on its own: icon_response and scale_cover called for    *)
(* the files above, under every icon configuration.                        *)
(***************************************************************************)
IconInit ==
    /\ config = [cors |-> FALSE, authenticator |-> FALSE]
    /\ conn = [r \in Conns |-> IdleConn]
    /\ pool = [queue |-> <<>>, running |-> {}]
    /\ transcodings = 0
    /\ icons \in {IconsNew(cfg) : cfg \in IconConfigs}

\* icon_response(path); read_ok: read_to_end of the cached file succeeds,
\* write_ok: cache_icon succeeds
IconResponse(path, read_ok, write_ok) ==
    /\ \E cache_enabled \in {~icons.cfg.cache_disabled} :
       \E f \in {lookup(cache_enabled, icons.cache, path)} :
       \E call \in {[NoIconCall EXCEPT !.op = "icon_response", !.path = path]} :
          IF f # NoEntry
          THEN icons' = [icons EXCEPT
                    !.prev = icons.last,
                    !.last = IF read_ok
                             THEN icon_body_response([call EXCEPT !.hit = TRUE], f)
                             ELSE [call EXCEPT !.hit = TRUE]]
          ELSE \E sc \in {scale_cover(path, icons.cfg)} :
               \E c1 \in {[call EXCEPT
                             !.scaled = TRUE,
                             !.cache_write = IF sc.ok /\ cache_enabled
                                             THEN IF write_ok THEN "ok" ELSE "failed"
                                             ELSE "none"]} :
                  icons' = [icons EXCEPT
                    !.prev = icons.last,
                    !.cache = cache_after_miss(@, path, sc, cache_enabled, write_ok),
                    !.last = IF miss_ok(sc, cache_enabled, write_ok)
                             THEN icon_body_response(c1, sc.data)
                             ELSE c1]
    /\ UNCHANGED <<config, conn, pool, transcodings>>

\* scale_cover(path) called on its own, as the test of the module does
ScaleCover(path) ==
    /\ \E sc \in {scale_cover(path, icons.cfg)} :
          icons' = [icons EXCEPT
                      !.prev = icons.last,
                      !.last = [NoIconCall EXCEPT !.op = "scale_cover", !.path = path,
                                                  !.ok = sc.ok, !.body = sc.data,
                                                  !.scaled = TRUE]]
    /\ UNCHANGED <<config, conn, pool, transcodings>>

IconNext ==
    \/ \E path \in IconPaths, read_ok \in BOOLEAN, write_ok \in BOOLEAN :
          IconResponse(path, read_ok, write_ok)
    \/ \E path \in IconPaths : ScaleCover(path)

IconSpec == IconInit /\ [][IconNext]_vars

(***************************************************************************)
(* Properties.                                                             *)
(***************************************************************************)
\* C1: a request that arrives while the queue of the pool is over the
\* configured limit, whatever its method and path, is answered 503
\* "Overloaded, try later"; the authenticator is not called, no handler is
\* called, no job is given to the pool and no transcoding slot is taken.
C1_OverloadRefused ==
    \A r \in Conns :
        conn[r].queue_over =>
            /\ conn[r].pc = "done"
            /\ conn[r].resp.status = 503
            /\ conn[r].resp.body = "Overloaded, try later"
            /\ conn[r].auth_calls = 0
            /\ conn[r].call.kind = "none"
            /\ conn[r].jobs = 0
            /\ conn[r].acquired = 0

\* a POST of the static /bundle.js that found the queue over the limit
C1_Witness ==
    /\ conn[1].queue_over
    /\ conn[1].req.method = "POST"
    /\ conn[1].req.path = "/bundle.js"
    /\ conn[1].resp.status = 503

\* the connections that hold a transcoding slot
Holders == {r \in Conns : conn[r].holds}

\* C2: the counter of active transcodes stays within 0..max_transcodings
\* under every interleaving of requests that start, finish, fail or are
\* cancelled, and no more than max_transcodings requests hold a slot at a
\* time: of two requests that meet one free slot only one takes it.
C2_TranscodingsBounded ==
    /\ transcodings >= 0
    /\ transcodings <= MaxTranscodings
    /\ Cardinality(Holders) <= MaxTranscodings

\* every slot is taken, a transcode is running, and another transcode
\* request has been refused
C2_Witness ==
    /\ transcodings = MaxTranscodings
    /\ \E r \in Conns :
          /\ conn[r].pc = "done"
          /\ conn[r].call.kind = "call"
          /\ conn[r].call.fn = "send_file"
          /\ conn[r].acquired = 0
          /\ conn[r].resp.status = 503

\* a request takes at most one slot and gives back what it took, once; the
\* counter is the number of requests that hold a slot
C3_Safety ==
    /\ transcodings = Cardinality(Holders)
    /\ \A r \in Conns :
          /\ conn[r].acquired <= 1
          /\ conn[r].released <= conn[r].acquired
          /\ conn[r].holds <=> (conn[r].released < conn[r].acquired)
          /\ conn[r].pc \in {"idle", "done", "cancelled", "panicked"} => ~conn[r].holds

\* C3: a transcode that took a slot gives it back exactly once when it ends,
\* by completion, by failure or by the client's disconnect: once the request
\* is over the counter no longer counts it, it is never decremented twice for
\* one transcode, and no slot stays held forever.
C3_SlotReleasedOnce ==
    /\ []C3_Safety
    /\ \A r \in Conns : conn[r].holds ~> ~conn[r].holds

\* a transcode that the client cancelled and whose slot came back
C3_Witness ==
    \E r \in Conns :
        /\ conn[r].pc = "cancelled"
        /\ conn[r].acquired = 1
        /\ conn[r].released = 1
        /\ transcodings = 0

\* process_checked has run on the request of connection r
Processed(r) ==
    /\ conn[r].pc \in {"job", "done", "panicked"}
    /\ ~conn[r].queue_over
    /\ ~is_static(conn[r].req.path)
    /\ conn[r].auth_result # "terminal"

\* a route handler has been called for the request of connection r
HandlerRan(r) == conn[r].call.kind = "call" /\ ~is_static(conn[r].req.path)

C5_Original ==
    \A r \in Conns :
        (/\ conn[r].pc = "done"
         /\ ~conn[r].queue_over
         /\ conn[r].auth_result # "terminal"
         /\ conn[r].req.method # "GET")
            => /\ conn[r].resp.status = 405
               /\ conn[r].resp.body = "Method not supported"

\* C6, as claimed: a GET whose decoded path is /<N>/... is answered 404,
\* with no handler called and no job submitted, when N is no index of a base
\* directory; otherwise a handler that is called gets base directory N.
C6_Original ==
    \A r \in Conns :
        (Processed(r) /\ conn[r].req.method = "GET") =>
            \A d \in {decode_utf8_lossy(percent_decode(as_bytes(conn[r].req.path)))} :
            \A m \in {COLLECTION_NUMBER_RE(d)} :
                (m.matched /\ \A i \in m.start..m.end : is_ascii_digit(d[i])) =>
                    \A z \in {StripZeros([i \in 1..(m.end - 1) |-> d[i + 1] - 48])} :
                        IF Len(z) > 9 \/ DigitsValue(z) >= NumBaseDirs
                        THEN /\ conn[r].pc = "done"
                             /\ conn[r].resp.status = 404
                             /\ conn[r].call.kind = "none"
                             /\ conn[r].jobs = 0
                        ELSE conn[r].call.kind = "call"
                                => conn[r].call.base = DigitsValue(z)

\* C7, as claimed: with a valid collection prefix /<N>, a remainder that
\* starts with /collections goes to the collections-info handler and one that
\* starts with /transcodings to the transcodings-info handler.
C7_Original ==
    \A r \in Conns :
        (Processed(r) /\ conn[r].req.method = "GET") =>
            \A d \in {decode_utf8_lossy(percent_decode(as_bytes(conn[r].req.path)))} :
            \A m \in {COLLECTION_NUMBER_RE(d)} :
                (m.matched /\ \A i \in m.start..m.end : is_ascii_digit(d[i])) =>
                    \A z \in {StripZeros([i \in 1..(m.end - 1) |-> d[i + 1] - 48])} :
                    \A rest \in {SubSeq(d, m.end + 1, Len(d))} :
                        (Len(z) <= 9 /\ DigitsValue(z) < NumBaseDirs) =>
                            /\ starts_with(rest, Lit("/collections"))
                                  => /\ conn[r].call.kind = "call"
                                     /\ conn[r].call.fn = "collections_list"
                            /\ starts_with(rest, Lit("/transcodings"))
                                  => /\ conn[r].call.kind = "call"
                                     /\ conn[r].call.fn = "transcodings_list"

\* the paths of the model that are audio routes of a configured collection
AudioPaths == {"/audio/s.mp3", "/audio/b.m4b", "/2/audio/s.mp3", "/%32/audio/s.mp3"}

\* the dispatcher answered the request of r itself, with this status
Rejected(r, status) ==
    /\ conn[r].pc = "done"
    /\ conn[r].handler_resp.status = status
    /\ conn[r].call.kind = "none"
    /\ conn[r].jobs = 0

SentFile(r) == conn[r].call.kind = "call" /\ conn[r].call.fn = "send_file"

\* C8: for an audio request, no Range header passes no range to send_file;
\* a Range in bytes with no range is answered 400, with several ranges 501,
\* a Range in another unit 501; with one range send_file gets that range
\* as it is in the header.
C8_RangePlanner ==
    \A r \in Conns :
        (Processed(r) /\ conn[r].req.method = "GET" /\ conn[r].req.path \in AudioPaths) =>
            \A rg \in {conn[r].req.range} :
                /\ rg.unit = "none" => SentFile(r) /\ conn[r].call.range = NoByteRange
                /\ (rg.unit = "bytes" /\ Len(rg.ranges) = 0) => Rejected(r, 400)
                /\ (rg.unit = "bytes" /\ Len(rg.ranges) > 1) => Rejected(r, 501)
                /\ rg.unit \notin {"none", "bytes"} => Rejected(r, 501)
                /\ (rg.unit = "bytes" /\ Len(rg.ranges) = 1)
                      => SentFile(r) /\ conn[r].call.range = rg.ranges[1]

\* an open-ended range reached send_file
C8_Witness ==
    /\ conn[1].pc = "job"
    /\ conn[1].req.range = Bytes(<<AllFrom(60)>>)
    /\ conn[1].call.fn = "send_file"
    /\ conn[1].call.range = AllFrom(60)

\* C9, as claimed: with CORS enabled every response to a request with an
\* Origin header carries Access-Control-Allow-Origin, equal to that origin,
\* and Access-Control-Allow-Credentials, whatever the outcome.
C9_Original ==
    config.cors =>
        \A r \in Conns :
            (conn[r].pc = "done" /\ conn[r].req.origin # None) =>
                /\ <<"Access-Control-Allow-Origin", conn[r].req.origin>>
                      \in conn[r].resp.headers
                /\ <<"Access-Control-Allow-Credentials", "true">> \in conn[r].resp.headers

\* C10: with CORS disabled, or for a request without Origin header, the
\* response returned is the handler's response unchanged: no CORS header is
\* added.
C10_NoCorsHeaders ==
    \A r \in Conns :
        (conn[r].pc = "done" /\ (~config.cors \/ conn[r].req.origin = None))
            => conn[r].resp = conn[r].handler_resp

\* CORS is disabled and a request with an Origin header got its folder
C10_Witness ==
    /\ ~config.cors
    /\ conn[1].pc = "done"
    /\ conn[1].cors_stage
    /\ conn[1].req.origin = "http://x"
    /\ conn[1].req.path = "/folder/f"
    /\ conn[1].resp.status = 200

\* icon_response was called twice in a row for one path, the cache enabled
ConsecutiveIcons ==
    /\ ~icons.cfg.cache_disabled
    /\ icons.prev.op = "icon_response"
    /\ icons.last.op = "icon_response"
    /\ icons.last.path = icons.prev.path

\* C11, as claimed: with the cache enabled, of two consecutive icon_response
\* calls for one path, the first having returned a body, the second returns
\* the same bytes and is served from the cache, scale_cover not invoked.
C11_Original ==
    (ConsecutiveIcons /\ icons.prev.ok) =>
        /\ icons.last.ok
        /\ icons.last.body = icons.prev.body
        /\ ~icons.last.scaled

\* C11, amended: with the cache enabled, of two consecutive icon_response
\* calls for one path, the first having returned a body: when the thumbnail
\* was in the cache after the first call (it was a hit, or its cache write
\* succeeded) the second is served from the cache without invoking
\* scale_cover; when the cache write of the first failed the second invokes
\* scale_cover again; whenever the second returns a body it is byte-identical
\* to the first's, and the second fails only when reading the cached file
\* fails.
C11_CacheHit ==
    (ConsecutiveIcons /\ icons.prev.ok) =>
        /\ (icons.prev.hit \/ icons.prev.cache_write = "ok")
              => icons.last.hit /\ ~icons.last.scaled
        /\ icons.prev.cache_write = "failed"
              => ~icons.last.hit /\ icons.last.scaled /\ icons.last.ok
        /\ icons.last.ok => icons.last.body = icons.prev.body
        /\ ~icons.last.ok => icons.last.hit

\* the second call for cover.jpg was served from the cache what the first
\* had scaled and cached
C11_Witness ==
    /\ ConsecutiveIcons
    /\ icons.last.path = "cover.jpg"
    /\ icons.prev.scaled /\ icons.prev.ok /\ icons.prev.cache_write = "ok"
    /\ icons.last.hit /\ icons.last.ok /\ ~icons.last.scaled
    /\ icons.last.body = icons.prev.body

\* C12: on a cache miss with the cache enabled, when writing the scaled
\* thumbnail to the cache fails, icon_response still returns status 200 with
\* the scaled bytes, Content-Type image/png and a Content-Length equal to the
\* length of the body.
C12_CacheWriteBestEffort ==
    (icons.last.op = "icon_response" /\ icons.last.cache_write = "failed") =>
        /\ icons.last.ok
        /\ icons.last.status = 200
        /\ icons.last.body = scale_cover(icons.last.path, icons.cfg).data
        /\ icons.last.body # <<>>
        /\ icons.last.headers = {<<"Content-Length", Len(icons.last.body)>>,
                                 <<"Content-Type", "image/png">>}

\* the cache write failed, the thumbnail was returned and is not cached
C12_Witness ==
    /\ icons.last.op = "icon_response"
    /\ icons.last.path = "wide.jpg"
    /\ icons.last.cache_write = "failed"
    /\ icons.last.status = 200
    /\ icons.cache["wide.jpg"] = NoEntry

\* C13: scale_cover of a square image W x W with a configured size S <= W
\* returns a PNG that decodes to an image of width S and height S.
C13_ScaleSquare ==
    \A path \in {icons.last.path} \cap IconPaths :
        (/\ icons.last.op = "scale_cover"
         /\ Files[path].exists /\ Files[path].decodable
         /\ Files[path].w = Files[path].h
         /\ icons.cfg.size <= Files[path].w) =>
            /\ Files[path].encodable => icons.last.ok
            /\ icons.last.ok =>
                  /\ decode_png(icons.last.body).ok
                  /\ decode_png(icons.last.body).w = icons.cfg.size
                  /\ decode_png(icons.last.body).h = icons.cfg.size

\* cover.jpg, 4 x 4, was scaled to a smaller size
C13_Witness ==
    /\ icons.last.op = "scale_cover"
    /\ icons.last.path = "cover.jpg"
    /\ icons.cfg.size < Files["cover.jpg"].w
    /\ icons.last.ok
    /\ decode_png(icons.last.body).w = icons.cfg.size

\* the search routes of the model and the collection each selects
SearchBase == "/search" :> 0 @@ "/1/search" :> 1

\* the value of q in the queries of the model that have one: "a b", "b!"
SearchValue == "q=a+b" :> <<97, 32, 98>> @@ "q=a&q=b%21" :> <<98, 33>>

\* C14: a GET for /search, with or without collection prefix, is answered
\* 404 with no search made when the query has no q; with a q the search is
\* called with the URL-decoded value of q on the base directory of the
\* selected collection.
C14_Search ==
    \A r \in Conns :
        (Processed(r) /\ conn[r].req.method = "GET"
                      /\ conn[r].req.path \in DOMAIN SearchBase) =>
            IF conn[r].req.query \in DOMAIN SearchValue
            THEN /\ conn[r].call.kind = "call"
                 /\ conn[r].call.fn = "search"
                 /\ conn[r].call.search_string = SearchValue[conn[r].req.query]
                 /\ conn[r].call.dir = "base_dirs"
                 /\ conn[r].call.base = SearchBase[conn[r].req.path]
                 /\ conn[r].jobs = 1
            ELSE /\ Rejected(r, 404)
                 /\ conn[r].resp.body = NOT_FOUND_MESSAGE

\* the search of collection 1 was called with "a b"
C14_Witness ==
    /\ conn[1].pc = "job"
    /\ conn[1].req.path = "/1/search"
    /\ conn[1].req.query = "q=a+b"
    /\ conn[1].call.fn = "search"
    /\ conn[1].call.base = 1
    /\ conn[1].call.search_string = <<97, 32, 98>>

\* the headers add_cors_headers sets for an origin
CorsHeaders(origin) ==
    {<<"Access-Control-Allow-Origin", origin>>,
     <<"Access-Control-Allow-Credentials", "true">>}

\* C15: a terminal response of the authenticator is what the service
\* returns, its status and its body as the authenticator gave them; its
\* headers are changed only when CORS is enabled and the request had an
\* Origin, and then only by the CORS headers set for that origin.  It is
\* never one of the dispatcher's own 404, 405 or 503.
C15_AuthPassThrough ==
    \A r \in Conns :
        conn[r].auth_result = "terminal" =>
            /\ conn[r].pc = "done"
            /\ conn[r].handler_resp \in AuthResponses
            /\ conn[r].resp.status = conn[r].handler_resp.status
            /\ conn[r].resp.body = conn[r].handler_resp.body
            /\ conn[r].resp.status \notin {404, 405, 503}
            /\ IF config.cors /\ conn[r].req.origin # None
               THEN conn[r].resp.headers =
                        {h \in conn[r].handler_resp.headers :
                            h[1] \notin {"Access-Control-Allow-Origin",
                                         "Access-Control-Allow-Credentials"}}
                        \cup CorsHeaders(conn[r].req.origin)
               ELSE conn[r].resp.headers = conn[r].handler_resp.headers

\* the authenticator's 403 was returned to a request with an Origin, CORS
\* enabled
C15_Witness ==
    /\ config.cors
    /\ conn[1].auth_result = "terminal"
    /\ conn[1].req.origin = "http://x"
    /\ conn[1].resp.status = 403
    /\ conn[1].resp.body = "Forbidden"
    /\ <<"Access-Control-Allow-Origin", "http://x">> \in conn[1].resp.headers

\* a Range header the audio route accepts: none, or one range in bytes
RangeAccepted(rg) == rg.unit = "none" \/ (rg.unit = "bytes" /\ Len(rg.ranges) = 1)

\* one step of the service: a response made without calling a handler
\* leaves the pool and the counter as they are, and the counter changes
\* only with a request for which send_file was called, its Range accepted
C16_Step ==
    /\ \A r \in Conns :
          (/\ conn[r].pc \in {"idle", "auth"}
           /\ conn'[r].pc = "done"
           /\ conn'[r].call.kind = "none") =>
              /\ pool' = pool
              /\ transcodings' = transcodings
              /\ conn'[r].jobs = 0
              /\ conn'[r].acquired = 0
    /\ transcodings' # transcodings =>
          \E r \in Conns :
          \E c \in {IF transcodings' > transcodings THEN conn'[r] ELSE conn[r]} :
              /\ conn'[r] # conn[r]
              /\ c.call.kind = "call"
              /\ c.call.fn = "send_file"
              /\ c.req.method = "GET"
              /\ RangeAccepted(c.req.range)

\* C16: the responses the dispatcher makes itself (503 overload, 404, 405,
\* 400, 501) submit no job to the pool and leave the transcoding counter
\* unchanged; the counter changes only by a request that reached send_file
\* on the audio route with an accepted or absent Range header.
C16_Frame == [][C16_Step]_vars

\* a Range with no range was answered 400 while another request held the
\* transcoding slot
C16_Witness ==
    /\ conn[1].pc = "done"
    /\ conn[1].handler_resp.status = 400
    /\ conn[1].call.kind = "none"
    /\ conn[1].jobs = 0
    /\ transcodings = 1
    /\ conn[2].holds

\* the /transcodings routes of the model
TranscodingsPaths == {"/transcodings"}

\* C17: the response to /transcodings is made of the configuration alone,
\* max_transcodings and the Low, Medium and High presets: it is the same
\* whatever the number of transcodes that are active when it is made.
C17_TranscodingsInfo ==
    \A r \in Conns :
        (Processed(r) /\ conn[r].req.method = "GET"
                      /\ conn[r].req.path \in TranscodingsPaths) =>
            /\ conn[r].pc = "done"
            /\ conn[r].call.fn = "transcodings_list"
            /\ conn[r].handler_resp.status = 200
            /\ conn[r].handler_resp.body =
                  ToString([max_transcodings |-> MaxTranscodings,
                            low |-> <<"preset", "Low">>,
                            medium |-> <<"preset", "Medium">>,
                            high |-> <<"preset", "High">>])
            /\ conn[r].resp.body = conn[r].handler_resp.body

\* /transcodings was answered while a transcode was active
C17_Witness ==
    /\ conn[1].pc = "done"
    /\ conn[1].req.path = "/transcodings"
    /\ conn[1].call.fn = "transcodings_list"
    /\ conn[1].resp.status = 200
    /\ transcodings = 1
    /\ conn[2].holds

\* C18: when scale_cover fails in icon_response the call fails as a whole:
\* no response and no bytes are returned and nothing is written to the
\* cache, so that the next call for the path is a cache miss again.
C18_ScaleFailure ==
    /\ \A path \in IconPaths :
          ~scale_cover(path, icons.cfg).ok => icons.cache[path] = NoEntry
    /\ \A path \in {icons.last.path} \cap IconPaths :
          (icons.last.op = "icon_response" /\ ~scale_cover(path, icons.cfg).ok) =>
              /\ icons.last.scaled
              /\ ~icons.last.hit
              /\ ~icons.last.ok
              /\ icons.last.status = 0
              /\ icons.last.body = <<>>
              /\ icons.last.headers = {}
              /\ icons.last.cache_write = "none"

\* icon_response failed twice in a row on a file that is no image, the
\* cache enabled: the second call scaled again
C18_Witness ==
    /\ ConsecutiveIcons
    /\ icons.last.path = "notes.txt"
    /\ ~icons.prev.ok /\ icons.prev.scaled
    /\ ~icons.last.ok /\ icons.last.scaled /\ ~icons.last.hit
    /\ icons.cache["notes.txt"] = NoEntry

\* C19, as claimed: several byte ranges are answered 501 "Do not support
\* multiple ranges", a Range in another unit 501 "Other than bytes ranges
\* are not supported".
C19_Original ==
    \A r \in Conns :
        (Processed(r) /\ conn[r].req.method = "GET" /\ conn[r].req.path \in AudioPaths) =>
            /\ (conn[r].req.range.unit = "bytes" /\ Len(conn[r].req.range.ranges) > 1)
                  => /\ conn[r].resp.status = 501
                     /\ conn[r].resp.body = "Do not support multiple ranges"
            /\ conn[r].req.range.unit \notin {"none", "bytes"}
                  => /\ conn[r].resp.status = 501
                     /\ conn[r].resp.body = "Other than bytes ranges are not supported"

\* C20, as claimed: a GET whose decoded path starts with /<digits>/ always
\* gets a response, 404 when the digits are no index of a collection,
\* however long the digits are: converting them never aborts the request.
C20_Original ==
    \A r \in Conns :
        (conn[r].pc \in {"job", "done", "panicked"}
         /\ ~conn[r].queue_over /\ conn[r].auth_result # "terminal"
         /\ conn[r].req.method = "GET") =>
            \A d \in {decode_utf8_lossy(percent_decode(as_bytes(conn[r].req.path)))} :
            \A m \in {COLLECTION_NUMBER_RE(d)} :
                (m.matched /\ \A i \in m.start..m.end : is_ascii_digit(d[i])) =>
                    /\ conn[r].pc # "panicked"
                    /\ \A z \in {StripZeros([i \in 1..(m.end - 1) |-> d[i + 1] - 48])} :
                          (Len(z) > 9 \/ DigitsValue(z) >= NumBaseDirs)
                              => conn[r].pc = "done" /\ conn[r].resp.status = 404

====
